---- MODULE Spec2Model ----
(***************************************************************************)
(* Model of the QRSenderForm component (src/src/pages/Index.tsx): file     *)
(* intake with its asynchronous preview read, the Telegram handle          *)
(* validator and formatter, and the timer-driven submission flow.          *)
(*                                                                         *)
(* Strings the code inspects character by character (the handle, the MIME  *)
(* type) are sequences of one-character strings; "" is <<>>.               *)
(***************************************************************************)
EXTENDS Integers, Sequences, FiniteSets, TLC

VARIABLES qrFile, qrPreview, telegramUsername, isSubmitting, isDragging,
          isSubmitted, toasts, reads, timers, mounted, fnArg, fnRes

state == <<qrFile, qrPreview, telegramUsername, isSubmitting, isDragging, isSubmitted>>
vars == <<qrFile, qrPreview, telegramUsername, isSubmitting, isDragging,
          isSubmitted, toasts, reads, timers, mounted, fnArg, fnRes>>

----------------------------------------------------------------------------
(* Bounds of the model *)

\* pending timers of the submission flow (caps the accepted submits in flight)
MaxTimers == 2
\* pending FileReader reads
MaxReads == 2
\* longest run of filler characters in a probed handle
MaxFill == 34

----------------------------------------------------------------------------
(* Characters and strings *)

\* representatives of the classes of /[^a-zA-Z0-9_@]/ : a-z, A-Z, 0-9, "_", "@", other
Alphabet == {"a", "Z", "5", "_", "@", "-"}

\* the character class [a-zA-Z0-9_] of telegramRegex
IsWordChar(c) == c \in {"a", "Z", "5", "_"}

\* the character class [a-zA-Z0-9_@] kept by formatTelegramUsername
IsKeptChar(c) == IsWordChar(c) \/ c = "@"

\* String.prototype.startsWith
StartsWith(s, p) == Len(s) >= Len(p) /\ SubSeq(s, 1, Len(p)) = p

\* String.prototype.replace(c, ''): removes the first occurrence of c, wherever it is
RECURSIVE ReplaceFirst(_, _)
ReplaceFirst(s, c) ==
    IF s = <<>> THEN <<>>
    ELSE IF Head(s) = c THEN Tail(s)
    ELSE <<Head(s)>> \o ReplaceFirst(Tail(s), c)

\* String.prototype.slice(0, n)
Slice0(s, n) == SubSeq(s, 1, IF Len(s) < n THEN Len(s) ELSE n)

\* n copies of the character c
RECURSIVE Repeat(_, _)
Repeat(c, n) == IF n = 0 THEN <<>> ELSE <<c>> \o Repeat(c, n - 1)

----------------------------------------------------------------------------
(* validateTelegramUsername and formatTelegramUsername *)

validateTelegramUsername(username) ==
    LET cleanUsername == ReplaceFirst(username, "@")
    IN  /\ Len(cleanUsername) >= 5
        /\ Len(cleanUsername) <= 32
        /\ \A i \in 1..Len(cleanUsername) : IsWordChar(cleanUsername[i])

formatTelegramUsername_sliceFirst(value) ==
    LET kept == Slice0(SelectSeq(value, IsKeptChar), 33)
    IN  IF kept # <<>> /\ ~StartsWith(kept, <<"@">>) THEN <<"@">> \o kept ELSE kept

formatTelegramUsername(value) ==
    LET kept == SelectSeq(value, IsKeptChar)
        formatted == IF kept # <<>> /\ ~StartsWith(kept, <<"@">>)
                     THEN <<"@">> \o kept
                     ELSE kept
    IN  Slice0(formatted, 33)

----------------------------------------------------------------------------
(* Files *)

ImagePng == <<"i", "m", "a", "g", "e", "/", "p", "n", "g">>
TextPlain == <<"t", "e", "x", "t", "/", "p", "l", "a", "i", "n">>
ImagePrefix == <<"i", "m", "a", "g", "e", "/">>

\* 10 * 1024 * 1024, the size limit of handleFileSelect
MaxFileSize == 10 * 1024 * 1024

\* a File: its declared MIME type, its size in bytes and its content
Files == [type : {ImagePng, TextPlain},
          size : {MaxFileSize, MaxFileSize + 1},
          blob : {"b1", "b2"}]

\* useState<File | null>(null): the value null
NoFile == [type |-> <<>>, size |-> 0 - 1, blob |-> "null"]

\* FileReader.readAsDataURL: "data:<type>;base64,<content>"
DataURL(file) == <<"data:">> \o file.type \o <<";base64,", file.blob>>

\* e.dataTransfer.files of a drop: no file, one file, or any file followed by
\* an image within the size limit or by a text file over it
DropLists ==
    {<<>>} \cup {<<f>> : f \in Files}
           \cup {<<f, g>> : f \in Files,
                            g \in {[type |-> ImagePng, size |-> MaxFileSize, blob |-> "b2"],
                                   [type |-> TextPlain, size |-> MaxFileSize + 1, blob |-> "b1"]}}

RemoveAt(s, i) == SubSeq(s, 1, i - 1) \o SubSeq(s, i + 1, Len(s))

----------------------------------------------------------------------------
(* Inputs *)

\* e.target.value of a change event of the handle field
TypedValues ==
    { <<>>,
      <<"a", "Z">>,
      <<"a", "-", "Z", "5", "_", "a", "-">>,
      Repeat("a", 34) }

\* strings over Alphabet of length at most n
RECURSIVE Strings(_)
Strings(n) ==
    IF n = 0 THEN {<<>>}
    ELSE LET shorter == Strings(n - 1)
         IN  shorter \cup {Append(s, c) : s \in shorter, c \in Alphabet}

\* handles probed on the pure functions: a head, a run of "a", a last character
ProbeInputs ==
    {pre \o Repeat("a", n) \o post :
        pre \in Strings(2), n \in 0..MaxFill, post \in Strings(1)}

\* the result of the last application: the operation, its boolean or string
\* result, and for a repeated formatting the string it was applied to
NoRes == [op |-> "none", ok |-> FALSE, out |-> <<>>, prev |-> <<>>]

----------------------------------------------------------------------------
(* Timers: delays in seconds; time advances by Tick, one second at a time *)

\* setTimeout(resolve, 2000)
SendDelay == 2
\* setTimeout(..., 3000)
ResetDelay == 3

\* the timer timers[i] is due, and no timer of the same delay set before it is
Due(i) ==
    /\ timers[i].left = 0
    /\ \A j \in 1..(i - 1) : ~(timers[j].kind = timers[i].kind /\ timers[j].left = 0)

----------------------------------------------------------------------------
(* Initial state: the useState initialisers *)

Init ==
    /\ qrFile = NoFile
    /\ qrPreview = <<>>
    /\ telegramUsername = <<>>
    /\ isSubmitting = FALSE
    /\ isDragging = FALSE
    /\ isSubmitted = FALSE
    /\ toasts = <<>>
    /\ reads = <<>>
    /\ timers = <<>>
    /\ mounted = TRUE
    /\ fnArg = <<>>
    /\ fnRes = NoRes

\* the form is rendered: {!isSubmitted ? <form ...> : ...} of a mounted component
FormRendered == mounted /\ ~isSubmitted

----------------------------------------------------------------------------
(* Handlers. toasts holds the notices raised by the last handler that raised *)
(* any: a handler that calls toast() replaces it, the others leave it.       *)

handleFileSelect_sizeGe(file) ==
    IF ~StartsWith(file.type, ImagePrefix)
    THEN /\ toasts' = <<"wrong_format">>
         /\ UNCHANGED <<qrFile, qrPreview, reads>>
    ELSE IF file.size >= MaxFileSize
    THEN /\ toasts' = <<"too_large">>
         /\ UNCHANGED <<qrFile, qrPreview, reads>>
    ELSE /\ Len(reads) < MaxReads
         /\ qrFile' = file
         /\ reads' = Append(reads, file)
         /\ toasts' = <<"loaded">>
         /\ UNCHANGED qrPreview

handleFileSelect_rejectClears(file) ==
    IF ~StartsWith(file.type, ImagePrefix)
    THEN /\ toasts' = <<"wrong_format">>
         /\ qrFile' = NoFile
         /\ qrPreview' = <<>>
         /\ UNCHANGED reads
    ELSE IF file.size > MaxFileSize
    THEN /\ toasts' = <<"too_large">>
         /\ qrFile' = NoFile
         /\ qrPreview' = <<>>
         /\ UNCHANGED reads
    ELSE /\ Len(reads) < MaxReads
         /\ qrFile' = file
         /\ reads' = Append(reads, file)
         /\ toasts' = <<"loaded">>
         /\ UNCHANGED qrPreview

handleFileSelect_sizeFirst(file) ==
    IF file.size > MaxFileSize
    THEN /\ toasts' = <<"too_large">>
         /\ UNCHANGED <<qrFile, qrPreview, reads>>
    ELSE IF ~StartsWith(file.type, ImagePrefix)
    THEN /\ toasts' = <<"wrong_format">>
         /\ UNCHANGED <<qrFile, qrPreview, reads>>
    ELSE /\ Len(reads) < MaxReads
         /\ qrFile' = file
         /\ reads' = Append(reads, file)
         /\ toasts' = <<"loaded">>
         /\ UNCHANGED qrPreview

handleFileSelect_dragBypass(file) ==
    IF ~StartsWith(file.type, ImagePrefix)
    THEN /\ toasts' = <<"wrong_format">>
         /\ UNCHANGED <<qrFile, qrPreview, reads>>
    ELSE IF ~isDragging /\ file.size > MaxFileSize
    THEN /\ toasts' = <<"too_large">>
         /\ UNCHANGED <<qrFile, qrPreview, reads>>
    ELSE /\ Len(reads) < MaxReads
         /\ qrFile' = file
         /\ reads' = Append(reads, file)
         /\ toasts' = <<"loaded">>
         /\ UNCHANGED qrPreview

handleFileSelect(file) ==
    IF ~StartsWith(file.type, ImagePrefix)
    THEN /\ toasts' = <<"wrong_format">>
         /\ UNCHANGED <<qrFile, qrPreview, reads>>
    ELSE IF file.size > MaxFileSize
    THEN /\ toasts' = <<"too_large">>
         /\ UNCHANGED <<qrFile, qrPreview, reads>>
    ELSE /\ Len(reads) < MaxReads
         /\ qrFile' = file
         /\ reads' = Append(reads, file)
         /\ toasts' = <<"loaded">>
         /\ UNCHANGED qrPreview

\* onChange of the hidden file input, for the chosen file
PickFileOf(file) ==
    /\ FormRendered
    /\ handleFileSelect(file)
    /\ UNCHANGED <<telegramUsername, isSubmitting, isDragging, isSubmitted,
                   timers, mounted, fnArg, fnRes>>

PickFile ==
    \E file \in Files : PickFileOf(file)

\* reader.onload; the state setter of an unmounted component has no effect
ReadDone ==
    \E i \in 1..Len(reads) :
        /\ reads' = RemoveAt(reads, i)
        /\ qrPreview' = IF mounted THEN DataURL(reads[i]) ELSE qrPreview
        /\ UNCHANGED <<qrFile, telegramUsername, isSubmitting, isDragging, isSubmitted,
                       toasts, timers, mounted, fnArg, fnRes>>

handleDragEnter ==
    /\ FormRendered
    /\ isDragging' = TRUE
    /\ UNCHANGED <<qrFile, qrPreview, telegramUsername, isSubmitting, isSubmitted,
                   toasts, reads, timers, mounted, fnArg, fnRes>>

handleDragLeave ==
    /\ FormRendered
    /\ isDragging' = FALSE
    /\ UNCHANGED <<qrFile, qrPreview, telegramUsername, isSubmitting, isSubmitted,
                   toasts, reads, timers, mounted, fnArg, fnRes>>

\* changes no state: a step of it is a stuttering step
handleDragOver ==
    /\ FormRendered
    /\ UNCHANGED vars

handleDropOf_lastFile(files) ==
    /\ FormRendered
    /\ isDragging' = FALSE
    /\ IF Len(files) > 0
       THEN handleFileSelect(files[Len(files)])
       ELSE UNCHANGED <<qrFile, qrPreview, reads, toasts>>
    /\ UNCHANGED <<telegramUsername, isSubmitting, isSubmitted,
                   timers, mounted, fnArg, fnRes>>

\* handleDrop for an event whose dataTransfer.files is files
handleDropOf(files) ==
    /\ FormRendered
    /\ isDragging' = FALSE
    /\ IF Len(files) > 0
       THEN handleFileSelect(files[1])
       ELSE UNCHANGED <<qrFile, qrPreview, reads, toasts>>
    /\ UNCHANGED <<telegramUsername, isSubmitting, isSubmitted,
                   timers, mounted, fnArg, fnRes>>

handleDrop ==
    \E files \in DropLists : handleDropOf(files)

handleUsernameChange_raw(value) ==
    telegramUsername' = value

handleUsernameChange(value) ==
    telegramUsername' = formatTelegramUsername(value)

TypeUsername ==
    \E value \in TypedValues :
        /\ FormRendered
        /\ handleUsernameChange(value)
        /\ UNCHANGED <<qrFile, qrPreview, isSubmitting, isDragging, isSubmitted,
                       toasts, reads, timers, mounted, fnArg, fnRes>>

\* the clear button is rendered inside the form, only while a preview is shown
clearFile ==
    /\ FormRendered
    /\ qrPreview # <<>>
    /\ qrFile' = NoFile
    /\ qrPreview' = <<>>
    /\ UNCHANGED <<telegramUsername, isSubmitting, isDragging, isSubmitted,
                   toasts, reads, timers, mounted, fnArg, fnRes>>

handleSubmit_noFileCheck ==
    /\ IF telegramUsername = <<>> \/ ~validateTelegramUsername(telegramUsername)
       THEN /\ toasts' = <<"bad_username">>
            /\ UNCHANGED <<isSubmitting, timers>>
       ELSE /\ Len(timers) < MaxTimers
            /\ isSubmitting' = TRUE
            /\ timers' = Append(timers, [kind |-> "send", left |-> SendDelay])
            /\ UNCHANGED toasts
    /\ UNCHANGED <<qrFile, qrPreview, telegramUsername, isDragging, isSubmitted,
                   reads, mounted, fnArg, fnRes>>

handleSubmit_handleFirst ==
    /\ IF telegramUsername = <<>> \/ ~validateTelegramUsername(telegramUsername)
       THEN /\ toasts' = <<"bad_username">>
            /\ UNCHANGED <<isSubmitting, timers>>
       ELSE IF qrFile = NoFile
       THEN /\ toasts' = <<"no_file">>
            /\ UNCHANGED <<isSubmitting, timers>>
       ELSE /\ Len(timers) < MaxTimers
            /\ isSubmitting' = TRUE
            /\ timers' = Append(timers, [kind |-> "send", left |-> SendDelay])
            /\ UNCHANGED toasts
    /\ UNCHANGED <<qrFile, qrPreview, telegramUsername, isDragging, isSubmitted,
                   reads, mounted, fnArg, fnRes>>

\* handleSubmit up to the await. The promise of the try block always resolves,
\* so its catch branch is never taken; the part after the await is SendDone.
handleSubmit ==
    /\ IF qrFile = NoFile
       THEN /\ toasts' = <<"no_file">>
            /\ UNCHANGED <<isSubmitting, timers>>
       ELSE IF telegramUsername = <<>> \/ ~validateTelegramUsername(telegramUsername)
       THEN /\ toasts' = <<"bad_username">>
            /\ UNCHANGED <<isSubmitting, timers>>
       ELSE /\ Len(timers) < MaxTimers
            /\ isSubmitting' = TRUE
            /\ timers' = Append(timers, [kind |-> "send", left |-> SendDelay])
            /\ UNCHANGED toasts
    /\ UNCHANGED <<qrFile, qrPreview, telegramUsername, isDragging, isSubmitted,
                   reads, mounted, fnArg, fnRes>>

SubmitDisabled_noSubmitting ==
    \/ qrFile = NoFile
    \/ telegramUsername = <<>>
    \/ ~validateTelegramUsername(telegramUsername)

\* the disabled attribute of the submit button
SubmitDisabled ==
    \/ qrFile = NoFile
    \/ telegramUsername = <<>>
    \/ ~validateTelegramUsername(telegramUsername)
    \/ isSubmitting

\* the user submits the form: a click on the submit button or Enter in the
\* handle field, neither of which submits while the button is disabled
ClickSubmit ==
    /\ FormRendered
    /\ ~SubmitDisabled
    /\ handleSubmit

\* a submit event dispatched on the form itself (form.requestSubmit(), a test
\* harness): onSubmit runs whatever the state of the button
DispatchSubmit ==
    /\ FormRendered
    /\ handleSubmit

SendDone_recheckFile ==
    \E i \in 1..Len(timers) :
        /\ Due(i)
        /\ timers[i].kind = "send"
        /\ IF qrFile = NoFile
           THEN /\ toasts' = <<"send_error">>
                /\ timers' = RemoveAt(timers, i)
                /\ UNCHANGED isSubmitted
           ELSE /\ isSubmitted' = IF mounted THEN TRUE ELSE isSubmitted
                /\ toasts' = <<"sent">>
                /\ timers' = Append(RemoveAt(timers, i),
                                    [kind |-> "reset", left |-> ResetDelay])
        /\ isSubmitting' = IF mounted THEN FALSE ELSE isSubmitting
        /\ UNCHANGED <<qrFile, qrPreview, telegramUsername, isDragging,
                       reads, mounted, fnArg, fnRes>>

SendDone_noFinally ==
    \E i \in 1..Len(timers) :
        /\ Due(i)
        /\ timers[i].kind = "send"
        /\ isSubmitted' = IF mounted THEN TRUE ELSE isSubmitted
        /\ toasts' = <<"sent">>
        /\ timers' = Append(RemoveAt(timers, i), [kind |-> "reset", left |-> ResetDelay])
        /\ UNCHANGED <<qrFile, qrPreview, telegramUsername, isSubmitting, isDragging,
                       reads, mounted, fnArg, fnRes>>

\* handleSubmit after the await: the 2 s timer has fired. The state setters of
\* an unmounted component have no effect; the toast and the new timer do.
SendDone ==
    \E i \in 1..Len(timers) :
        /\ Due(i)
        /\ timers[i].kind = "send"
        /\ isSubmitted' = IF mounted THEN TRUE ELSE isSubmitted
        /\ toasts' = <<"sent">>
        /\ timers' = Append(RemoveAt(timers, i), [kind |-> "reset", left |-> ResetDelay])
        /\ isSubmitting' = IF mounted THEN FALSE ELSE isSubmitting
        /\ UNCHANGED <<qrFile, qrPreview, telegramUsername, isDragging,
                       reads, mounted, fnArg, fnRes>>

ResetForm_keepHandle ==
    \E i \in 1..Len(timers) :
        /\ Due(i)
        /\ timers[i].kind = "reset"
        /\ timers' = RemoveAt(timers, i)
        /\ isSubmitted' = IF mounted THEN FALSE ELSE isSubmitted
        /\ qrFile' = IF mounted THEN NoFile ELSE qrFile
        /\ qrPreview' = IF mounted THEN <<>> ELSE qrPreview
        /\ UNCHANGED <<telegramUsername, isSubmitting, isDragging, toasts, reads,
                       mounted, fnArg, fnRes>>

\* the callback of the 3 s timer
ResetForm ==
    \E i \in 1..Len(timers) :
        /\ Due(i)
        /\ timers[i].kind = "reset"
        /\ timers' = RemoveAt(timers, i)
        /\ isSubmitted' = IF mounted THEN FALSE ELSE isSubmitted
        /\ qrFile' = IF mounted THEN NoFile ELSE qrFile
        /\ qrPreview' = IF mounted THEN <<>> ELSE qrPreview
        /\ telegramUsername' = IF mounted THEN <<>> ELSE telegramUsername
        /\ UNCHANGED <<isSubmitting, isDragging, toasts, reads, mounted, fnArg, fnRes>>

\* one second passes; a due timer fires before time goes on
Tick ==
    /\ timers # <<>>
    /\ \A i \in 1..Len(timers) : timers[i].left > 0
    /\ timers' = [i \in 1..Len(timers) |-> [timers[i] EXCEPT !.left = @ - 1]]
    /\ UNCHANGED <<qrFile, qrPreview, telegramUsername, isSubmitting, isDragging,
                   isSubmitted, toasts, reads, mounted, fnArg, fnRes>>

\* the component is torn down; it registers no cleanup, so timers and reads stay
Unmount ==
    /\ mounted
    /\ mounted' = FALSE
    /\ UNCHANGED <<qrFile, qrPreview, telegramUsername, isSubmitting, isDragging,
                   isSubmitted, toasts, reads, timers, fnArg, fnRes>>

\* the component in the browser
Next ==
    \/ PickFile
    \/ ReadDone
    \/ handleDragEnter
    \/ handleDragLeave
    \/ handleDragOver
    \/ handleDrop
    \/ TypeUsername
    \/ clearFile
    \/ ClickSubmit
    \/ SendDone
    \/ ResetForm
    \/ Tick
    \/ Unmount

Spec == Init /\ [][Next]_vars

\* the event loop runs every due timer callback, and time goes on
FairSpec == Spec /\ WF_vars(Tick) /\ WF_vars(SendDone) /\ WF_vars(ResetForm)

\* the component with submit events dispatched on the form as well
DispatchNext ==
    \/ Next
    \/ DispatchSubmit

DispatchSpec == Init /\ [][DispatchNext]_vars

----------------------------------------------------------------------------
(* The pure functions applied to probed handles *)

FnInit ==
    /\ qrFile = NoFile
    /\ qrPreview = <<>>
    /\ telegramUsername = <<>>
    /\ isSubmitting = FALSE
    /\ isDragging = FALSE
    /\ isSubmitted = FALSE
    /\ toasts = <<>>
    /\ reads = <<>>
    /\ timers = <<>>
    /\ mounted = TRUE
    /\ fnArg \in ProbeInputs
    /\ fnRes = NoRes

ApplyValidate ==
    /\ fnRes' = [op |-> "validate", ok |-> validateTelegramUsername(fnArg),
                 out |-> <<>>, prev |-> <<>>]
    /\ UNCHANGED <<qrFile, qrPreview, telegramUsername, isSubmitting, isDragging,
                   isSubmitted, toasts, reads, timers, mounted, fnArg>>

ApplyFormat ==
    /\ fnRes' = [op |-> "format", ok |-> validateTelegramUsername(formatTelegramUsername(fnArg)),
                 out |-> formatTelegramUsername(fnArg), prev |-> <<>>]
    /\ UNCHANGED <<qrFile, qrPreview, telegramUsername, isSubmitting, isDragging,
                   isSubmitted, toasts, reads, timers, mounted, fnArg>>

\* the formatted handle is formatted once more
ApplyFormatAgain ==
    /\ fnRes.op = "format"
    /\ fnRes' = [op |-> "format2",
                 ok |-> validateTelegramUsername(formatTelegramUsername(fnRes.out)),
                 out |-> formatTelegramUsername(fnRes.out), prev |-> fnRes.out]
    /\ UNCHANGED <<qrFile, qrPreview, telegramUsername, isSubmitting, isDragging,
                   isSubmitted, toasts, reads, timers, mounted, fnArg>>

FnNext == ApplyValidate \/ ApplyFormat \/ ApplyFormatAgain

FnSpec == FnInit /\ [][FnNext]_vars

----------------------------------------------------------------------------
(* Properties *)

\* the state of the submission flow
Flow == IF isSubmitted THEN "submitted" ELSE IF isSubmitting THEN "submitting" ELSE "idle"

\* a submit was accepted in this step: only handleSubmit starts a timer without
\* ending one
SubmitAccepted == Len(timers') = Len(timers) + 1

\* C1: a submit is accepted (the flow leaves idle for submitting, a send timer is
\* started) only in a state that holds an image and a non-empty handle that
\* passes validateTelegramUsername, however the submit event was raised.
C1_SubmitNeedsImageAndHandle ==
    [][(SubmitAccepted \/ (~isSubmitting /\ isSubmitting'))
        => /\ qrFile # NoFile
           /\ telegramUsername # <<>>
           /\ validateTelegramUsername(telegramUsername)]_vars

\* an accepted submit has just started the flow
C1_Witness ==
    /\ Flow = "submitting"
    /\ timers = <<[kind |-> "send", left |-> SendDelay]>>
    /\ qrFile # NoFile
    /\ validateTelegramUsername(telegramUsername)

\* C2: a submit in a state that lacks the image, or holds it with an empty or
\* invalid handle, changes no state variable, starts no timer and raises exactly
\* one notice: the missing-image notice when no image is held, the
\* invalid-handle notice otherwise.
C2_RefusedSubmit ==
    [][(/\ handleSubmit
        /\ \/ qrFile = NoFile
           \/ telegramUsername = <<>>
           \/ ~validateTelegramUsername(telegramUsername))
        => /\ UNCHANGED <<state, reads, timers, mounted>>
           /\ toasts' = <<IF qrFile = NoFile THEN "no_file" ELSE "bad_username">>]_vars

\* a submit with an image and the too short handle "@aZ" was refused
C2_Witness ==
    /\ toasts = <<"bad_username">>
    /\ qrFile # NoFile
    /\ telegramUsername = <<"@", "a", "Z">>
    /\ Flow = "idle"
    /\ timers = <<>>

\* a submit with neither an image nor a valid handle raised the missing-image notice
C2_WitnessNoFile ==
    /\ toasts = <<"no_file">>
    /\ qrFile = NoFile
    /\ telegramUsername = <<"@", "a", "Z">>

\* C3: while the component is mounted, a flow that is submitting reaches submitted;
\* submitting is left only for submitted, and submitted is entered only from
\* submitting.
C3_SubmittingLeadsToSubmitted ==
    /\ (mounted /\ isSubmitting) ~> (isSubmitted \/ ~mounted)
    /\ [][(isSubmitting /\ ~isSubmitting') => isSubmitted']_vars
    /\ [][(~isSubmitted /\ isSubmitted') => isSubmitting]_vars

\* submitted was reached although the file was cleared and the handle was made
\* invalid while submitting
C3_Witness ==
    /\ isSubmitted
    /\ qrFile = NoFile
    /\ ~validateTelegramUsername(telegramUsername)

\* C4: the flow only moves idle -> submitting -> submitted -> idle; the step that
\* clears the submitted flag also empties the handle, the file and the preview;
\* and while the component is mounted a submitted flow returns to idle.
C4_SubmittedResetsToIdle ==
    /\ [][Flow' # Flow => <<Flow, Flow'>> \in {<<"idle", "submitting">>,
                                              <<"submitting", "submitted">>,
                                              <<"submitted", "idle">>}]_vars
    /\ [][(isSubmitted /\ ~isSubmitted')
            => /\ telegramUsername' = <<>>
               /\ qrFile' = NoFile
               /\ qrPreview' = <<>>]_vars
    /\ (mounted /\ isSubmitted) ~> (Flow = "idle" \/ ~mounted)

\* the automatic reset has acted: the sent notice was the last one raised, and
\* the form is idle and empty again with no timer left
C4_Witness ==
    /\ mounted
    /\ toasts = <<"sent">>
    /\ Flow = "idle"
    /\ qrFile = NoFile /\ qrPreview = <<>> /\ telegramUsername = <<>>
    /\ timers = <<>>

\* C5: whenever the preview is set to a data URL, it is the data URL of the file
\* held at that moment: the result of a read started for a superseded selection
\* never overwrites the preview.
C5_PreviewOfLatestFile ==
    [][(qrPreview' # qrPreview /\ qrPreview' # <<>>) => qrPreview' = DataURL(qrFile')]_vars

\* the handle h without its first character when that is "@", h itself otherwise
StripLeadingAt(h) == IF h # <<>> /\ Head(h) = "@" THEN Tail(h) ELSE h

\* [A-Za-z0-9_]{5,32}
IsUsernameBody(s) ==
    /\ Len(s) >= 5
    /\ Len(s) <= 32
    /\ \A i \in 1..Len(s) : s[i] \in {"a", "Z", "5", "_"}

\* C6: validateTelegramUsername(h) is true exactly when h, with one leading "@"
\* removed if there is one, is 5 to 32 characters of [A-Za-z0-9_]; a handle with
\* an "@" after its first position is rejected.
C6_ValidateStripsLeadingAt ==
    fnRes.op = "validate" => (fnRes.ok <=> IsUsernameBody(StripLeadingAt(fnArg)))

\* C7: formatting a formatted handle gives the same string, and
\* validateTelegramUsername answers the same on both.
C7_FormatIdempotent ==
    fnRes.op = "format2"
        => /\ fnRes.out = fnRes.prev
           /\ fnRes.ok = validateTelegramUsername(fnRes.prev)

\* a handle of more than 33 characters with a disallowed character and two "@"
\* was formatted twice
C7_Witness ==
    /\ fnRes.op = "format2"
    /\ Len(fnArg) > 33
    /\ \E i \in 1..Len(fnArg) : fnArg[i] = "-"
    /\ \E i, j \in 1..Len(fnArg) : i < j /\ fnArg[i] = "@" /\ fnArg[j] = "@"
    /\ Len(fnRes.out) = 33

\* C8: the formatted handle of an input with some character of [A-Za-z0-9_@] has
\* only such characters, at most 33 of them, starts with "@" and has no other
\* "@"; the formatted handle of any other input is empty.
C8_FormatOneLeadingAt ==
    fnRes.op = "format"
        => IF \E i \in 1..Len(fnArg) : fnArg[i] \in {"a", "Z", "5", "_", "@"}
           THEN /\ \A i \in 1..Len(fnRes.out) : fnRes.out[i] \in {"a", "Z", "5", "_", "@"}
                /\ Len(fnRes.out) <= 33
                /\ Len(fnRes.out) >= 1
                /\ fnRes.out[1] = "@"
                /\ \A i \in 2..Len(fnRes.out) : fnRes.out[i] # "@"
           ELSE fnRes.out = <<>>

\* C9: the stored handle is empty, or at most 33 characters of [A-Za-z0-9_@]
\* starting with "@"; formatting it changes nothing.
C9_StoredHandleFormatted ==
    /\ \/ telegramUsername = <<>>
       \/ /\ Len(telegramUsername) <= 33
          /\ telegramUsername[1] = "@"
          /\ \A i \in 1..Len(telegramUsername) :
                telegramUsername[i] \in {"a", "Z", "5", "_", "@"}
    /\ formatTelegramUsername(telegramUsername) = telegramUsername

\* a typed value of 34 characters is stored cut to 33 and is being submitted
C9_Witness ==
    /\ Len(telegramUsername) = 33
    /\ Flow = "submitting"

\* a file whose type starts with "image/" and whose size is at most 10485760
AcceptableFile(file) ==
    /\ Len(file.type) >= 6
    /\ SubSeq(file.type, 1, 6) = <<"i", "m", "a", "g", "e", "/">>
    /\ file.size <= 10485760

\* C10: file intake makes the file the held one and raises the loaded notice
\* exactly when the type starts with "image/" and the size is at most
\* 10485760 bytes; any other file leaves the held file as it was.
C10_IntakeAcceptsImagesUpTo10MiB ==
    [][\A file \in Files :
          handleFileSelect(file)
            => /\ (qrFile' = file /\ toasts' = <<"loaded">>) <=> AcceptableFile(file)
               /\ ~AcceptableFile(file) => qrFile' = qrFile]_vars

\* an image/png file of exactly 10485760 bytes was accepted
C10_Witness ==
    /\ qrFile.type = ImagePng
    /\ qrFile.size = 10485760
    /\ toasts = <<"loaded">>

\* an image/png file of 10485761 bytes was rejected
C10_WitnessTooLarge ==
    /\ toasts = <<"too_large">>
    /\ qrFile = NoFile

\* a step that takes in a file: the file input's onChange or a drop
IntakeStep == PickFile \/ handleDrop

\* C11: an intake step of a file that is not acceptable (wrong type or too
\* large) changes neither the held file nor the preview nor the handle nor the
\* flow flags, starts no preview read and no timer: what was held stays held.
C11_RejectedFileDiscarded ==
    [][\A file \in Files :
          (IntakeStep /\ handleFileSelect(file) /\ ~AcceptableFile(file))
            => UNCHANGED <<qrFile, qrPreview, telegramUsername, isSubmitting,
                           isSubmitted, reads, timers>>]_vars

\* a file was rejected as too large while an accepted file and its preview stay
C11_Witness ==
    /\ toasts = <<"too_large">>
    /\ qrFile # NoFile
    /\ qrPreview = DataURL(qrFile)
    /\ reads = <<>>

\* C12: a drop is the intake of the first dropped file alone: its step is the
\* step of a drop of that file only, so a later file is never checked, held or
\* read, even when the first is rejected and a later one is acceptable; a drop
\* of no file changes nothing except that the drag flag becomes false.
C12_DropTakesFirstFileOnly ==
    [][\A files \in DropLists :
          handleDropOf(files)
            => /\ isDragging' = FALSE
               /\ IF Len(files) = 0
                  THEN UNCHANGED <<qrFile, qrPreview, telegramUsername, isSubmitting,
                                   isSubmitted, toasts, reads, timers, mounted>>
                  ELSE /\ handleDropOf(<<files[1]>>)
                       /\ handleFileSelect(files[1])
                       /\ qrFile' \in {qrFile, files[1]}
                       /\ reads' \in {reads, Append(reads, files[1])}
                       /\ (qrFile' = files[1] /\ toasts' = <<"loaded">>)
                            <=> AcceptableFile(files[1])]_vars

\* some drop list has a rejected first file followed by an acceptable one, and
\* a file was rejected for its type with nothing held and nothing being read
C12_Witness ==
    /\ \E files \in DropLists :
          /\ Len(files) = 2
          /\ ~AcceptableFile(files[1])
          /\ AcceptableFile(files[2])
    /\ toasts = <<"wrong_format">>
    /\ ~isDragging
    /\ qrFile = NoFile
    /\ reads = <<>>

\* every state variable of the component but the drag flag
Low ==
    <<qrFile, qrPreview, telegramUsername, isSubmitting, isSubmitted,
      toasts, reads, timers, mounted>>

\* the values of Low an intake of file can lead to: held file old or new,
\* one of the three intake notices, a read started or not
IntakeOutcomes(file) ==
    {<<q, qrPreview, telegramUsername, isSubmitting, isSubmitted, t, r, timers, mounted>> :
        q \in {qrFile, file},
        t \in {<<"wrong_format">>, <<"too_large">>, <<"loaded">>},
        r \in {reads, Append(reads, file)}}

\* the values of Low a submit event can lead to: refused with either notice,
\* or accepted with a send timer started
SubmitOutcomes ==
    {<<qrFile, qrPreview, telegramUsername, b, isSubmitted, t, reads, k, mounted>> :
        b \in {isSubmitting, TRUE},
        t \in {toasts, <<"no_file">>, <<"bad_username">>},
        k \in {timers, Append(timers, [kind |-> "send", left |-> SendDelay])}}

\* in a step between two states, event E is possible in both or in neither, and
\* leads from both to the same values of Low, all of them among outcomes
SameOutcome(E, outcomes) ==
    /\ (ENABLED E) <=> (ENABLED E)'
    /\ ~ENABLED (E /\ Low' \notin outcomes)
    /\ ~(ENABLED (E /\ Low' \notin outcomes))'
    /\ \A c \in outcomes : (ENABLED (E /\ Low' = c)) <=> (ENABLED (E /\ Low' = c))'

\* C13: the drag flag has no effect on validation. Drag-enter sets the flag,
\* drag-leave and drop clear it, drag-over changes nothing, and none of the
\* first three changes any other variable. Any two states that differ only in
\* the drag flag (the two ends of a step that only sets it) allow the same
\* intake events (file input, drop) and submit events (button, dispatched),
\* with the same acceptance outcome, notice, file, preview, handle, flow flags,
\* reads and timers; so two runs that differ only in the flag stay that way.
C13_DragFlagHasNoEffect ==
    /\ [][/\ handleDragEnter => (isDragging' /\ Low' = Low)
          /\ handleDragLeave => (~isDragging' /\ Low' = Low)
          /\ handleDragOver => UNCHANGED vars
          /\ handleDrop => ~isDragging']_vars
    /\ [][(~isDragging /\ isDragging' /\ Low' = Low)
          => /\ \A file \in Files :
                   SameOutcome(PickFileOf(file), IntakeOutcomes(file))
             /\ \A files \in DropLists \ {<<>>} :
                   SameOutcome(handleDropOf(files), IntakeOutcomes(files[1]))
             /\ SameOutcome(handleDropOf(<<>>), {Low})
             /\ SameOutcome(ClickSubmit, SubmitOutcomes)
             /\ SameOutcome(DispatchSubmit, SubmitOutcomes)]_vars

\* a file was accepted and a submit was accepted while the drag flag is set
C13_Witness ==
    /\ isDragging
    /\ Flow = "submitting"
    /\ toasts = <<"loaded">>
    /\ qrFile # NoFile

\* C14: the pending timers are cancelled on teardown: once the component is
\* unmounted no send timer and no reset timer is pending, so no timer callback
\* runs after teardown.
C14_TimersCancelledOnTeardown ==
    ~mounted => timers = <<>>

\* C15: intake checks the type first and the size second, each with its own
\* notice: an intake raises exactly one notice, the wrong-format notice for a
\* type that does not start with "image/" whatever the size, the too-large
\* notice for an image above 10485760 bytes, the loaded notice only for a file
\* that is acceptable.
C15_TypeCheckedBeforeSize ==
    [][\A file \in Files :
          handleFileSelect(file)
            => /\ toasts' = <<IF ~(Len(file.type) >= 6 /\ SubSeq(file.type, 1, 6) = ImagePrefix)
                               THEN "wrong_format"
                               ELSE IF file.size > 10485760
                               THEN "too_large"
                               ELSE "loaded">>
               /\ toasts' = <<"loaded">> => AcceptableFile(file)]_vars

\* some file is both of a non-image type and too large, and a file was
\* rejected for its type while an accepted file is held and being read
C15_Witness ==
    /\ \E file \in Files : file.type = TextPlain /\ file.size > 10485760
    /\ toasts = <<"wrong_format">>
    /\ qrFile # NoFile
    /\ reads = <<qrFile>>

\* C16: the flow is always exactly one of idle, submitting, submitted: the
\* flags isSubmitting and isSubmitted are never both true, and a step that
\* makes isSubmitted true leaves isSubmitting false.
C16_FlowFlagsExclusive ==
    /\ [](~(isSubmitting /\ isSubmitted))
    /\ [][(~isSubmitted /\ isSubmitted') => ~isSubmitting']_vars

\* the send timer has fired: submitted, no longer submitting, reset timer set
C16_Witness ==
    /\ isSubmitted
    /\ ~isSubmitting
    /\ timers = <<[kind |-> "reset", left |-> ResetDelay]>>
    /\ toasts = <<"sent">>

\* C17: whenever the flow is submitted, the payload validated at submit time
\* is still held: a file is held and the stored handle is non-empty and passes
\* validateTelegramUsername.
C17_SubmittedHoldsValidPayload ==
    isSubmitted
        => /\ qrFile # NoFile
           /\ telegramUsername # <<>>
           /\ validateTelegramUsername(telegramUsername)

\* C18: the preview never outlives its file: a non-empty preview implies that
\* a file is held.
C18_PreviewImpliesFile ==
    qrPreview # <<>> => qrFile # NoFile

\* the number of pending timers of a kind
Pending(kind) == Cardinality({i \in 1..Len(timers) : timers[i].kind = kind})

\* C19: at most one submission is in flight. A submit is accepted only in the
\* idle flow with no timer pending, so at most one send timer and at most one
\* reset timer are pending; and a reset callback runs on a mounted component
\* only in the submitted flow with no other timer pending, so it clears what
\* its own submission left and never the data of a later submission.
C19_OneSubmissionInFlight ==
    /\ [](Pending("send") <= 1 /\ Pending("reset") <= 1)
    /\ [][SubmitAccepted => (Flow = "idle" /\ timers = <<>>)]_vars
    /\ [][(Len(timers') < Len(timers))
          => /\ timers' = <<>>
             /\ mounted => (Flow = "submitted" /\ Flow' = "idle")]_vars

\* the flow is submitted, its reset timer is due, and the form is not rendered
C19_Witness ==
    /\ Flow = "submitted"
    /\ timers = <<[kind |-> "reset", left |-> 0]>>
    /\ ~FormRendered
    /\ mounted

====
